---- MODULE Spec2Model ----
(***************************************************************************)
(* Model of the URL shortener of src/src/main.rs: one PostgreSQL table     *)
(* `urls (id CHAR(6) PRIMARY KEY, url TEXT NOT NULL UNIQUE)`, the process  *)
(* start-up of main/AppState::try_new, and the two axum handlers shortner  *)
(* (POST /) and redirect (GET /:id) run by concurrently scheduled tasks.   *)
(* A handler is cut at its .await on the store: the statement the store    *)
(* executes is one atomic step (PostgreSQL runs a single statement in its  *)
(* own transaction), the code before and after it are separate steps.      *)
(***************************************************************************)
EXTENDS Integers, Sequences, FiniteSets, Bags, TLC

\* ------------------------------------------------------------------ bounds
\* Number of requests the server has in flight at once (tokio tasks).
NumHandlers == 2
\* Number of distinct values nanoid!(6) can produce in the model; the id i
\* stands for one fixed 6-character string of the nanoid alphabet.
NumIds == 2

Ids == 1..NumIds

\* Urls are strings, modelled as tuples of bytes.  The request body is any
\* JSON string, so the empty string and strings with control characters are
\* inputs.  104 is 'h', 10 is LF.
Urls == { <<>>, <<104>>, <<10>> }

NoId == 0
NoUrl == <<0 - 1>>

\* ------------------------------------------------------------------ state
VARIABLES
  mainPc,       \* position of main: "start", "connected", "serving", "exited"
  tableExists,  \* whether the table urls exists in the database
  rows,         \* the rows of table urls: a set of UrlRecord [id, url]
  reqs,         \* the requests in flight: a bag of handler-task states
  firstUrl,     \* history: per id, the url of the first Ok(id) of shortn
  recording,    \* whether firstUrl is recorded in this behaviour
  wave          \* history: overlap of the shortn calls since all tasks idle

vars == <<mainPc, tableExists, rows, reqs, firstUrl, recording, wave>>

UrlRecord == [id : Ids, url : Urls]

\* A handler task: where it is (pc), the url of the body (shortner) or the
\* id of the path (redirect), the id shortn drew, and once the store call
\* has returned its result: ok, and the id (rid) or the url (rurl) returned.
Task(pc, url, id, ok, rid, rurl) ==
  [pc |-> pc, url |-> url, id |-> id, ok |-> ok, rid |-> rid, rurl |-> rurl]

\* --------------------------------------------------------- the store (SQL)
\* Variants of the upsert that a slip in the statement would give.
\* Without the primary key: a duplicate id is stored.
UpsertSqlNoPrimaryKey(table, id, url) ==
  LET same == { r \in table : r.url = url }
      new  == [id |-> id, url |-> url]
  IN [ok |-> TRUE, table |-> (table \ same) \cup {new}, row |-> new]

\* Without the unique index on url (a plain INSERT): the old row stays.
UpsertSqlPlainInsert(table, id, url) ==
  LET new == [id |-> id, url |-> url]
  IN IF \E r \in table : r.id = id /\ r.url # url
       THEN [ok |-> FALSE, table |-> table, row |-> new]
       ELSE [ok |-> TRUE, table |-> table \cup {new}, row |-> new]

\* ON CONFLICT(url) DO NOTHING, answering with the values offered: the old
\* row keeps its id.
UpsertSqlDoNothing(table, id, url) ==
  LET same   == { r \in table : r.url = url }
      others == table \ same
      new    == [id |-> id, url |-> url]
  IN IF \E r \in others : r.id = id
       THEN [ok |-> FALSE, table |-> table, row |-> new]
       ELSE [ok |-> TRUE,
             table |-> IF same = {} THEN table \cup {new} ELSE table,
             row |-> new]

\* The conflict taken on id as well (the row holding the id is replaced).
UpsertSqlTakeOver(table, id, url) ==
  LET new == [id |-> id, url |-> url]
  IN [ok |-> TRUE,
      table |-> { r \in table : r.url # url /\ r.id # id } \cup {new},
      row |-> new]

\* An upsert done as DELETE then INSERT without a transaction: when the
\* INSERT fails on the primary key the row of the url is already gone.
UpsertSqlDeleteInsert(table, id, url) ==
  LET same   == { r \in table : r.url = url }
      others == table \ same
      new    == [id |-> id, url |-> url]
  IN IF \E r \in others : r.id = id
       THEN [ok |-> FALSE, table |-> others, row |-> new]
       ELSE [ok |-> TRUE, table |-> others \cup {new}, row |-> new]

\* INSERT INTO urls (id, url) VALUES ($1, $2)
\*   ON CONFLICT(url) DO UPDATE SET id=excluded.id RETURNING *
\* The arbiter is the unique index on url only.  Without a row for url the
\* tuple is inserted and a primary-key duplicate is an error; with a row for
\* url that row's id is updated and a primary-key duplicate with ANOTHER row
\* is an error.  An error leaves the table as it was.  RETURNING * yields
\* the row as stored.
UpsertSql(table, id, url) ==
  LET same   == { r \in table : r.url = url }
      others == table \ same
      new    == [id |-> id, url |-> url]
  IN IF \E r \in others : r.id = id
       THEN [ok |-> FALSE, table |-> table, row |-> new]
       ELSE [ok |-> TRUE, table |-> others \cup {new}, row |-> new]

\* SELECT without its WHERE clause: the first row of the table, whatever id.
SelectSqlNoWhere(table, id) ==
  IF table = {}
    THEN [ok |-> FALSE, url |-> NoUrl]
    ELSE [ok |-> TRUE, url |-> (CHOOSE r \in table : TRUE).url]

\* SELECT url FROM urls WHERE id = $1, fetch_one: an error when no row is
\* returned (RowNotFound), otherwise the first row.
SelectSql(table, id) ==
  LET hit == { r \in table : r.id = id }
  IN IF hit = {}
       THEN [ok |-> FALSE, url |-> NoUrl]
       ELSE [ok |-> TRUE, url |-> (CHOOSE r \in hit : TRUE).url]

\* CREATE TABLE without IF NOT EXISTS handling that keeps the rows: the table
\* is made anew at every start.
CreateTableSqlAnew(exists, table) ==
  {}

\* CREATE TABLE IF NOT EXISTS urls (...): creates an empty table when there
\* is none, and leaves an existing table and its rows alone.
CreateTableSql(exists, table) ==
  IF exists THEN table ELSE {}

\* ------------------------------------------------------- HTTP status codes
CREATED == 201
FOUND == 302
NOT_FOUND == 404
INTERNAL_SERVER_ERROR == 500

\* url.parse::<HeaderValue>(): every byte must be a visible character or a
\* tab (b >= 32 and b /= 127, or b = 9); otherwise the parse is an error.
HeaderValueParse(url) ==
  [ok |-> \A i \in 1..Len(url) : (url[i] >= 32 /\ url[i] # 127) \/ url[i] = 9,
   value |-> url]

\* The status shortner answers with, from the result of state.shortn.
ShortnerStatus(r) ==
  IF r.ok THEN CREATED ELSE INTERNAL_SERVER_ERROR

\* The status redirect answers with, from the result of state.get_url.
RedirectStatus(r) ==
  IF ~r.ok THEN NOT_FOUND
  ELSE IF HeaderValueParse(r.rurl).ok THEN FOUND
  ELSE INTERNAL_SERVER_ERROR

\* The text of the id i: one 6-character string per id.
IdText(i) == "id000" \o ToString(i)

\* The address main binds the listener to.
ListenAddr == "127.0.0.1:9876"

\* A body that joins base and id without the "/" between them.
ShortnerResponseNoSlash(r) ==
  IF r.ok
    THEN [status |-> CREATED, id |-> IdText(r.rid),
          url |-> "http://127.0.0.1:9876" \o IdText(r.rid)]
    ELSE [status |-> INTERNAL_SERVER_ERROR, id |-> "", url |-> ""]

\* The response of shortner: 201 with ShortnResponse {id, url}, the url
\* being format!("http://127.0.0.1:9876/{}", id); 500 without a body when
\* state.shortn failed.
ShortnerResponse(r) ==
  IF r.ok
    THEN [status |-> CREATED, id |-> IdText(r.rid),
          url |-> "http://127.0.0.1:9876/" \o IdText(r.rid)]
    ELSE [status |-> INTERNAL_SERVER_ERROR, id |-> "", url |-> ""]

\* A redirect that tells a failed get_url apart as a server error.
RedirectResponseServerError(r) ==
  IF ~r.ok THEN [status |-> INTERNAL_SERVER_ERROR, location |-> NoUrl]
  ELSE IF HeaderValueParse(r.rurl).ok
    THEN [status |-> FOUND, location |-> HeaderValueParse(r.rurl).value]
  ELSE [status |-> INTERNAL_SERVER_ERROR, location |-> NoUrl]

\* A redirect that sends the url without parsing it into a header value.
RedirectResponseUnparsed(r) ==
  IF ~r.ok THEN [status |-> NOT_FOUND, location |-> NoUrl]
  ELSE [status |-> FOUND, location |-> r.rurl]

\* The response of redirect: 404 when get_url failed, 302 with the header
\* Location when the url parses into a header value, 500 otherwise.
RedirectResponse(r) ==
  IF ~r.ok THEN [status |-> NOT_FOUND, location |-> NoUrl]
  ELSE IF HeaderValueParse(r.rurl).ok
    THEN [status |-> FOUND, location |-> HeaderValueParse(r.rurl).value]
  ELSE [status |-> INTERNAL_SERVER_ERROR, location |-> NoUrl]

\* ------------------------------------------------------------ history
\* The overlap of shortn calls: "open" while no statement of a shortn call
\* has run since no shortn call was pending, "closed" once one has, "mixed"
\* when after that a shortn call started or was answered.  While the wave
\* is "closed", the pending shortn calls are all the calls made since it
\* was open, and each started before any of their statements ran.
NoShortnPending(b) ==
  \A t \in BagToSet(b) : t.pc \notin {"shortn", "shortn_ret"}

WaveAfter(w, b) ==
  IF NoShortnPending(b) THEN "open" ELSE "mixed"

\* One task of the bag b moves from state t to state u.
Step(b, t, u) == (b (-) SetToBag({t})) (+) SetToBag({u})

\* ------------------------------------------------------------------ main
\* The state before the first start of the process: no table yet.
Fresh ==
  /\ mainPc = "start"
  /\ tableExists = FALSE
  /\ rows = {}
  /\ reqs = EmptyBag
  /\ firstUrl = [i \in Ids |-> NoUrl]
  /\ wave = "open"

Init == Fresh /\ recording = FALSE

\* The same program with the history firstUrl recorded.
InitHist == Fresh /\ recording = TRUE

\* AppState::try_new succeeds: the pool connects and the table is created
\* if it does not exist.
TryNewOk ==
  /\ mainPc = "start"
  /\ mainPc' = "connected"
  /\ rows' = CreateTableSql(tableExists, rows)
  /\ tableExists' = TRUE
  /\ UNCHANGED <<reqs, firstUrl, recording, wave>>

\* The error of try_new swallowed: main goes on to bind the listener.
TryNewErrSwallowed ==
  /\ mainPc = "start"
  /\ mainPc' = "connected"
  /\ UNCHANGED <<tableExists, rows, reqs, firstUrl, recording, wave>>

\* AppState::try_new fails (PgPool::connect or the CREATE TABLE statement):
\* main returns the error through `?` and the process ends.
TryNewErr ==
  /\ mainPc = "start"
  /\ mainPc' = "exited"
  /\ UNCHANGED <<tableExists, rows, reqs, firstUrl, recording, wave>>

\* TcpListener::bind succeeds and axum::serve starts handling requests.
BindOk ==
  /\ mainPc = "connected"
  /\ mainPc' = "serving"
  /\ UNCHANGED <<tableExists, rows, reqs, firstUrl, recording, wave>>

\* TcpListener::bind fails: main returns ConnectionFailure.
BindErr ==
  /\ mainPc = "connected"
  /\ mainPc' = "exited"
  /\ UNCHANGED <<tableExists, rows, reqs, firstUrl, recording, wave>>

\* axum::serve returns (or the process is stopped): the tasks of the runtime
\* are dropped with it; the database keeps its rows.
ServeExit ==
  /\ mainPc = "serving"
  /\ mainPc' = "exited"
  /\ reqs' = EmptyBag
  /\ wave' = "open"
  /\ UNCHANGED <<tableExists, rows, firstUrl, recording>>

\* The process is started again: main runs from its first line against the
\* same database.
ProcessStart ==
  /\ mainPc = "exited"
  /\ mainPc' = "start"
  /\ UNCHANGED <<tableExists, rows, reqs, firstUrl, recording, wave>>

\* -------------------------------------------------------------- POST /
\* shortner is entered with the body's url and shortn draws id = nanoid!(6);
\* the task then awaits the store.
ShortnerCall(url, id) ==
  /\ mainPc = "serving"
  /\ BagCardinality(reqs) < NumHandlers
  /\ reqs' = reqs (+) SetToBag({Task("shortn", url, id, FALSE, NoId, NoUrl)})
  /\ wave' = IF wave = "open" THEN "open" ELSE "mixed"
  /\ UNCHANGED <<mainPc, tableExists, rows, firstUrl, recording>>

\* The store executes the INSERT .. ON CONFLICT statement of shortn; shortn
\* returns Ok(row.id) or ShortnRequestError.
ShortnExec(t) ==
  /\ mainPc = "serving"
  /\ t.pc = "shortn"
  /\ LET r == UpsertSql(rows, t.id, t.url)
     IN /\ rows' = r.table
        /\ reqs' = Step(reqs, t,
                     Task("shortn_ret", t.url, t.id, r.ok,
                          IF r.ok THEN r.row.id ELSE NoId, NoUrl))
        /\ firstUrl' = IF recording /\ r.ok /\ firstUrl[r.row.id] = NoUrl
                         THEN [firstUrl EXCEPT ![r.row.id] = t.url]
                         ELSE firstUrl
  /\ wave' = IF wave = "open" THEN "closed" ELSE wave
  /\ UNCHANGED <<mainPc, tableExists, recording>>

\* A retry loop around the statement: on a store error shortn draws another
\* id and issues the statement again.
ShortnStoreErrorRetry(t) ==
  /\ mainPc = "serving"
  /\ t.pc = "shortn"
  /\ \E id \in Ids \ {t.id} :
       reqs' = Step(reqs, t, Task("shortn", t.url, id, FALSE, NoId, NoUrl))
  /\ wave' = IF wave = "open" THEN "closed" ELSE wave
  /\ UNCHANGED <<mainPc, tableExists, rows, firstUrl, recording>>

\* The statement of shortn fails for a reason other than a constraint (the
\* connection is lost, the pool times out): shortn returns
\* ShortnRequestError.  The statement is taken not to have run: PostgreSQL
\* applies a statement whole or not at all, and a statement that did commit
\* is the step ShortnExec.
ShortnStoreError(t) ==
  /\ mainPc = "serving"
  /\ t.pc = "shortn"
  /\ reqs' = Step(reqs, t, Task("shortn_ret", t.url, t.id, FALSE, NoId, NoUrl))
  /\ wave' = IF wave = "open" THEN "closed" ELSE wave
  /\ UNCHANGED <<mainPc, tableExists, rows, firstUrl, recording>>

\* shortner sends its response: 201 with the id, or 500.
ShortnerRespond(t) ==
  /\ mainPc = "serving"
  /\ t.pc = "shortn_ret"
  /\ reqs' = reqs (-) SetToBag({t})
  /\ wave' = WaveAfter(wave, reqs')
  /\ UNCHANGED <<mainPc, tableExists, rows, firstUrl, recording>>

\* ------------------------------------------------------------ GET /:id
\* redirect is entered with the path's id and awaits get_url.
RedirectCall(id) ==
  /\ mainPc = "serving"
  /\ BagCardinality(reqs) < NumHandlers
  /\ reqs' = reqs (+) SetToBag({Task("get_url", NoUrl, id, FALSE, NoId, NoUrl)})
  /\ UNCHANGED <<mainPc, tableExists, rows, firstUrl, recording, wave>>

\* A get_url that consumes the row it reads (DELETE .. RETURNING url).
GetUrlExecConsumes(t) ==
  /\ mainPc = "serving"
  /\ t.pc = "get_url"
  /\ LET r == SelectSql(rows, t.id)
     IN reqs' = Step(reqs, t, Task("get_url_ret", NoUrl, t.id, r.ok, NoId, r.url))
  /\ rows' = { r \in rows : r.id # t.id }
  /\ UNCHANGED <<mainPc, tableExists, firstUrl, recording, wave>>

\* The store executes the SELECT of get_url; get_url returns Ok(url) or
\* GetUrlError.
GetUrlExec(t) ==
  /\ mainPc = "serving"
  /\ t.pc = "get_url"
  /\ LET r == SelectSql(rows, t.id)
     IN reqs' = Step(reqs, t, Task("get_url_ret", NoUrl, t.id, r.ok, NoId, r.url))
  /\ UNCHANGED <<mainPc, tableExists, rows, firstUrl, recording, wave>>

\* The SELECT fails for a reason other than a missing row: get_url returns
\* GetUrlError all the same.
GetUrlStoreError(t) ==
  /\ mainPc = "serving"
  /\ t.pc = "get_url"
  /\ reqs' = Step(reqs, t, Task("get_url_ret", NoUrl, t.id, FALSE, NoId, NoUrl))
  /\ UNCHANGED <<mainPc, tableExists, rows, firstUrl, recording, wave>>

\* redirect sends its response: 302 with Location, 404 or 500.
RedirectRespond(t) ==
  /\ mainPc = "serving"
  /\ t.pc = "get_url_ret"
  /\ reqs' = reqs (-) SetToBag({t})
  /\ UNCHANGED <<mainPc, tableExists, rows, firstUrl, recording, wave>>

Next ==
  \/ TryNewOk
  \/ TryNewErr
  \/ BindOk
  \/ BindErr
  \/ ServeExit
  \/ ProcessStart
  \/ \E url \in Urls, id \in Ids : ShortnerCall(url, id)
  \/ \E t \in BagToSet(reqs) : ShortnExec(t)
  \/ \E t \in BagToSet(reqs) : ShortnStoreError(t)
  \/ \E t \in BagToSet(reqs) : ShortnerRespond(t)
  \/ \E id \in Ids : RedirectCall(id)
  \/ \E t \in BagToSet(reqs) : GetUrlExec(t)
  \/ \E t \in BagToSet(reqs) : GetUrlStoreError(t)
  \/ \E t \in BagToSet(reqs) : RedirectRespond(t)

Spec == Init /\ [][Next]_vars

SpecHist == InitHist /\ [][Next]_vars

\* ============================================================== claims
Tasks == BagToSet(reqs)

\* The step in which the statement of the shortn call t returns Ok: the task
\* t is replaced by u, which holds the id returned.
PutOk(t, u) ==
  /\ t.pc = "shortn"
  /\ u.pc = "shortn_ret"
  /\ u.ok
  /\ u.url = t.url
  /\ reqs' = Step(reqs, t, u)

\* The step in which the statement of the shortn call t returns an error.
PutErr(t, u) ==
  /\ t.pc = "shortn"
  /\ u.pc = "shortn_ret"
  /\ ~u.ok
  /\ u.url = t.url
  /\ reqs' = Step(reqs, t, u)

RowsOf(table, url) == { r \in table : r.url = url }

\* C1: in every reachable state, whatever put calls have run, succeeded or
\* failed, in whatever interleaving, no two rows share an id and no two rows
\* share a url.
C1_Uniqueness ==
  \A r1 \in rows, r2 \in rows :
    (r1.id = r2.id \/ r1.url = r2.url) => r1 = r2

\* Two rows are stored and a put has failed.
C1_Witness ==
  /\ Cardinality(rows) >= 2
  /\ \E t \in Tasks : t.pc = "shortn_ret" /\ ~t.ok

\* C2: when put(u) succeeds and returns id, a get(id) on the store as that
\* put left it succeeds and returns exactly u.
C2_RoundTrip ==
  [][\A t \in BagToSet(reqs), u \in BagToSet(reqs') :
       PutOk(t, u) => SelectSql(rows', u.rid) = [ok |-> TRUE, url |-> t.url]
    ]_vars

\* A put has returned an id and a get of that id has returned the put's url.
C2_Witness ==
  \E t \in Tasks, g \in Tasks :
    /\ t.pc = "shortn_ret" /\ t.ok
    /\ g.pc = "get_url_ret" /\ g.ok
    /\ g.id = t.rid /\ g.rurl = t.url

\* C3: when put(u) succeeds on a url whose row holds id1 (the id the previous
\* successful put(u) returned) and returns id2 # id1, then in the store as
\* that put left it get(id1) fails, get(id2) returns u and exactly one row
\* has url u.
C3_Reshorten ==
  [][\A t \in BagToSet(reqs), u \in BagToSet(reqs') :
       PutOk(t, u) =>
         \A old \in RowsOf(rows, t.url) :
           old.id # u.rid =>
             /\ ~SelectSql(rows', old.id).ok
             /\ SelectSql(rows', u.rid) = [ok |-> TRUE, url |-> t.url]
             /\ Cardinality(RowsOf(rows', t.url)) = 1
    ]_vars

\* A url has been shortened again: a get of an id has returned a url, that
\* id now has no row, and the url has a row under the id a later put got.
C3_Witness ==
  \E g \in Tasks, t \in Tasks :
    /\ g.pc = "get_url_ret" /\ g.ok
    /\ ~SelectSql(rows, g.id).ok
    /\ t.pc = "shortn_ret" /\ t.ok /\ t.url = g.rurl /\ t.rid # g.id
    /\ SelectSql(rows, t.rid) = [ok |-> TRUE, url |-> g.rurl]

\* The shortn calls in flight or returned and not yet answered.
PutTasks == { t \in Tasks : t.pc \in {"shortn", "shortn_ret"} }

\* How many of the pending shortn calls were returned the id.
Returned(id) ==
  BagCardinality([t \in { x \in PutTasks : x.pc = "shortn_ret" /\ x.ok
                                             /\ x.rid = id }
                    |-> CopiesIn(t, reqs)])

\* N >= 2 put(u) calls ran concurrently (each started before the statement
\* of any of them ran, and no other put ran meanwhile) and all have returned
\* an id.
ConcurrentPutsDone(u) ==
  /\ wave = "closed"
  /\ BagCardinality([t \in PutTasks |-> CopiesIn(t, reqs)]) >= 2
  /\ \A t \in PutTasks : t.pc = "shortn_ret" /\ t.ok /\ t.url = u

\* C4 as stated: after N concurrent put(u) the store holds one row for u,
\* exactly one of the N returned ids is that row's id, and get on the others
\* fails.
C4_Original ==
  \A u \in Urls :
    ConcurrentPutsDone(u) =>
      /\ Cardinality(RowsOf(rows, u)) = 1
      /\ \A r \in RowsOf(rows, u) :
           /\ Returned(r.id) = 1
           /\ \A t \in PutTasks : t.rid # r.id => ~SelectSql(rows, t.rid).ok

\* C4 (amended): after N concurrent put(u) that all returned an id, the
\* store holds exactly one row for u, at least one of the N returned ids is
\* that row's id (more than one when calls drew the same id), and get on
\* every returned id different from it fails with NotFound.
C4_ConcurrentSameUrl ==
  \A u \in Urls :
    ConcurrentPutsDone(u) =>
      /\ Cardinality(RowsOf(rows, u)) = 1
      /\ \A r \in RowsOf(rows, u) :
           /\ Returned(r.id) >= 1
           /\ \A t \in PutTasks : t.rid # r.id => ~SelectSql(rows, t.rid).ok

\* Two concurrent put(u) have returned two different ids.
C4_Witness ==
  \E u \in Urls :
    /\ ConcurrentPutsDone(u)
    /\ \E t1 \in PutTasks, t2 \in PutTasks : t1.rid # t2.rid

C6_Original ==
  [][/\ \A t \in BagToSet(reqs), u \in BagToSet(reqs') :
          PutOk(t, u) => [id |-> u.rid, url |-> t.url] \in rows'
     /\ \A t \in BagToSet(reqs) :
          (t.pc = "shortn_ret" /\ t.ok /\ reqs' = reqs (-) SetToBag({t}))
            => [id |-> t.rid, url |-> t.url] \in rows
    ]_vars

\* C6 (amended): the id returned to a caller is the id persisted for its url
\* in the store as its own statement leaves it; the response carries that
\* id, also when a statement committed in between has overwritten it.
C6_ReturnedIsCommitted ==
  [][/\ \A t \in BagToSet(reqs), u \in BagToSet(reqs') :
          PutOk(t, u) =>
            /\ u.rid = t.id
            /\ RowsOf(rows', t.url) = {[id |-> u.rid, url |-> t.url]}
     /\ \A t \in BagToSet(reqs) :
          (t.pc = "shortn_ret" /\ t.ok /\ reqs' = reqs (-) SetToBag({t}))
            => t.rid = t.id /\ ShortnerStatus(t) = CREATED
    ]_vars

\* A caller holds an id to answer with that a later put of the same url has
\* already overwritten.
C6_Witness ==
  \E t \in Tasks :
    /\ t.pc = "shortn_ret" /\ t.ok
    /\ RowsOf(rows, t.url) # {}
    /\ [id |-> t.rid, url |-> t.url] \notin rows

\* The id the shortn call t drew is the id of a row holding another url.
Collides(table, t) ==
  \E r \in table : r.id = t.id /\ r.url # t.url

\* C7: a put(u) whose id is the id of a row holding another url fails, its
\* request answers 500 and the store is unchanged, whether u has a row or not.
C7_IdCollision ==
  [][\A t \in BagToSet(reqs), u \in BagToSet(reqs') :
       ( /\ t.pc = "shortn" /\ u.pc = "shortn_ret"
         /\ u.url = t.url /\ u.id = t.id
         /\ reqs' = Step(reqs, t, u)
         /\ Collides(rows, t) )
       => /\ ~u.ok
          /\ ShortnerStatus(u) = INTERNAL_SERVER_ERROR
          /\ rows' = rows
    ]_vars

\* Two puts have failed whose ids are held by rows of other urls: one for a
\* url that has a row, one for a url that has none.
C7_Witness ==
  \E t1 \in Tasks, t2 \in Tasks :
    /\ t1.pc = "shortn_ret" /\ ~t1.ok /\ Collides(rows, t1)
    /\ t2.pc = "shortn_ret" /\ ~t2.ok /\ Collides(rows, t2)
    /\ RowsOf(rows, t1.url) # {}
    /\ RowsOf(rows, t2.url) = {}

\* C8: every stored row has a non-empty url, whatever urls are submitted.
C8_NonEmptyUrl ==
  \A r \in rows : Len(r.url) > 0

\* C9: once a successful put has assigned id to url u, get(id) returns u or
\* fails in every later state; it never returns another url.
C9_Immutable ==
  \A id \in Ids :
    firstUrl[id] # NoUrl =>
      LET r == SelectSql(rows, id)
      IN r.ok => r.url = firstUrl[id]

\* C10: a url that has a row has exactly one row after every step (a put, a
\* get, a start of the process with its CREATE TABLE), and a put that
\* succeeds leaves exactly one row for its url.
C10_NeverDeleted ==
  [][/\ \A r \in rows : Cardinality(RowsOf(rows', r.url)) = 1
     /\ \A t \in BagToSet(reqs), u \in BagToSet(reqs') :
          PutOk(t, u) => Cardinality(RowsOf(rows', t.url)) = 1
    ]_vars

\* The process has started again and run try_new on a table holding rows.
C10_Witness ==
  /\ mainPc = "connected"
  /\ Cardinality(rows) >= 2

\* C11: a shorten whose store call succeeds answers 201 with an id and a
\* short link that is the base address of the service ("http://" and the
\* address it listens on), "/" and that same id; the id is the id of the
\* row holding the url in the store as the call's statement leaves it.
C11_ShortenResponse ==
  [][\A t \in BagToSet(reqs), u \in BagToSet(reqs') :
       PutOk(t, u) =>
         LET resp == ShortnerResponse(u)
         IN /\ resp.status = CREATED
            /\ resp.url = "http://" \o ListenAddr \o "/" \o resp.id
            /\ \E r \in rows' :
                 /\ r.url = t.url
                 /\ resp.id = IdText(r.id)
                 /\ RowsOf(rows', t.url) = {r}
    ]_vars

\* A shorten has succeeded while the table is full and holds its 201
\* response, the id of which is the id of the url's row.
C11_Witness ==
  \E t \in Tasks :
    /\ t.pc = "shortn_ret" /\ t.ok
    /\ ShortnerResponse(t).status = CREATED
    /\ ShortnerResponse(t).url = "http://127.0.0.1:9876/" \o IdText(t.rid)
    /\ [id |-> t.rid, url |-> t.url] \in rows
    /\ Cardinality(rows) = NumIds

\* The step in which the get_url call t returns: the task t is replaced by
\* u, which holds the result.
GetRet(t, u) ==
  /\ t.pc = "get_url"
  /\ u.pc = "get_url_ret"
  /\ u.id = t.id
  /\ reqs' = Step(reqs, t, u)

\* C12: a resolve whose get_url fails answers 404 without a Location, and
\* the response is the same whether no row has the id or the store call
\* failed while a row has it.
C12_ResolveFailed ==
  [][\A t \in BagToSet(reqs), u \in BagToSet(reqs') :
       (GetRet(t, u) /\ ~u.ok) =>
         /\ RedirectResponse(u) = [status |-> NOT_FOUND, location |-> NoUrl]
         /\ RedirectResponse(u) =
              RedirectResponse(Task("get_url_ret", NoUrl, t.id, FALSE, NoId,
                                    SelectSql({}, t.id).url))
    ]_vars

\* Two resolves have failed, one of an id that has a row (the store call
\* failed) and one of an id that has none, and their responses are the same.
C12_Witness ==
  \E g1 \in Tasks, g2 \in Tasks :
    /\ g1.pc = "get_url_ret" /\ ~g1.ok /\ SelectSql(rows, g1.id).ok
    /\ g2.pc = "get_url_ret" /\ ~g2.ok /\ ~SelectSql(rows, g2.id).ok
    /\ RedirectResponse(g1) = RedirectResponse(g2)

\* C13: a resolve of an id that has a row, whose store call succeeds, answers
\* 302 with Location equal to the stored url when every byte of the url is
\* allowed in a header value, and 500 when one is not.
C13_RedirectLocation ==
  [][\A t \in BagToSet(reqs), u \in BagToSet(reqs') :
       (GetRet(t, u) /\ u.ok) =>
         \E r \in rows :
           /\ r.id = t.id
           /\ IF \A i \in 1..Len(r.url) :
                   (r.url[i] >= 32 /\ r.url[i] # 127) \/ r.url[i] = 9
                THEN RedirectResponse(u) = [status |-> FOUND, location |-> r.url]
                ELSE RedirectResponse(u).status = INTERNAL_SERVER_ERROR
    ]_vars

\* A url with a line feed is stored and a resolve of its id answers 500,
\* while a resolve of the id of a plain url answers 302.
C13_Witness ==
  \E g1 \in Tasks, g2 \in Tasks :
    /\ g1.pc = "get_url_ret" /\ g1.ok /\ g1.rurl = <<10>>
    /\ RedirectResponse(g1).status = INTERNAL_SERVER_ERROR
    /\ g2.pc = "get_url_ret" /\ g2.ok
    /\ RedirectResponse(g2) = [status |-> FOUND, location |-> <<104>>]

\* C14: try_new run on a database that has the table succeeds and leaves
\* every row as it is, and its effect on the store is that of running
\* CREATE TABLE IF NOT EXISTS once more on its own result.
C14_EnsureSchemaIdempotent ==
  [][(mainPc = "start" /\ mainPc' = "connected") =>
       /\ tableExists'
       /\ tableExists => rows' = rows
       /\ CreateTableSql(tableExists', rows') = rows'
    ]_vars

\* try_new has run on a table that holds the rows of two urls, one of them
\* the empty url, and the rows are there.
C14_Witness ==
  /\ mainPc = "connected"
  /\ tableExists
  /\ \E r1 \in rows, r2 \in rows : r1.url = <<>> /\ r2.url # <<>>

\* C15: a request is in flight only while main serves, main serves only
\* after try_new has succeeded (the table exists), and a step of main from
\* its start goes to the bind only with the table there: a failed try_new
\* ends the process with no request taken.
C15_StartupOrdering ==
  /\ (reqs # EmptyBag => mainPc = "serving")
  /\ (mainPc \in {"connected", "serving"} => tableExists)
  /\ (mainPc = "exited" => reqs = EmptyBag)

\* try_new has failed at the first start: the process has exited, no table
\* was made and no request is in flight.
C15_Witness ==
  /\ mainPc = "exited"
  /\ ~tableExists
  /\ reqs = EmptyBag

\* The task t leaves its state in this step.
Leaves(t) == CopiesIn(t, reqs') < CopiesIn(t, reqs)

\* C16: while main serves, a shorten request goes from its call through one
\* statement, with the one id it drew, to its result, and a resolve request
\* through one statement to its result; a request that holds a result,
\* failed or not, only sends its response, with no store operation; and the
\* rows change only in the one statement of a shorten request.
C16_NoRetry ==
  [][/\ \A t \in BagToSet(reqs) :
          (Leaves(t) /\ mainPc' = "serving") =>
            /\ t.pc = "shortn" =>
                 \E u \in BagToSet(reqs') :
                   /\ u.pc = "shortn_ret" /\ u.url = t.url /\ u.id = t.id
                   /\ reqs' = Step(reqs, t, u)
                   /\ ~u.ok => rows' = rows
            /\ t.pc = "get_url" =>
                 \E u \in BagToSet(reqs') :
                   /\ u.pc = "get_url_ret" /\ u.id = t.id
                   /\ reqs' = Step(reqs, t, u)
                   /\ rows' = rows
            /\ t.pc \in {"shortn_ret", "get_url_ret"} =>
                 /\ reqs' = reqs (-) SetToBag({t})
                 /\ rows' = rows
     /\ rows' # rows =>
          \E t \in BagToSet(reqs) : t.pc = "shortn" /\ Leaves(t)
    ]_vars

\* A shorten and a resolve have both failed and hold their failure results.
C16_Witness ==
  \E t \in Tasks, g \in Tasks :
    /\ t.pc = "shortn_ret" /\ ~t.ok
    /\ ShortnerResponse(t).status = INTERNAL_SERVER_ERROR
    /\ g.pc = "get_url_ret" /\ ~g.ok
    /\ RedirectResponse(g).status = NOT_FOUND

C18_PutFrame ==
  [][\A t \in BagToSet(reqs), u \in BagToSet(reqs') :
       PutOk(t, u) =>
         /\ \A v \in Urls \ {t.url} : RowsOf(rows', v) = RowsOf(rows, v)
         /\ \A r \in rows :
              r.url # t.url => SelectSql(rows', r.id) = SelectSql(rows, r.id)
    ]_vars

\* A put has succeeded on a url while another url has a row, and a get of
\* that other row's id returns the other url.
C18_Witness ==
  \E t \in Tasks :
    /\ t.pc = "shortn_ret" /\ t.ok
    /\ [id |-> t.rid, url |-> t.url] \in rows
    /\ \E r \in rows :
         r.url # t.url /\ SelectSql(rows, r.id) = [ok |-> TRUE, url |-> r.url]

\* C19: the step in which a get_url call returns, with a url or with an
\* error, and the step in which its response is sent leave the rows as they
\* were.
C19_GetReadOnly ==
  [][\A t \in BagToSet(reqs) :
       (Leaves(t) /\ t.pc \in {"get_url", "get_url_ret"}) => rows' = rows
    ]_vars

\* With rows stored, one get has returned a url and one has failed.
C19_Witness ==
  \E g1 \in Tasks, g2 \in Tasks :
    /\ g1.pc = "get_url_ret" /\ g1.ok /\ g1.rurl \in Urls
    /\ g2.pc = "get_url_ret" /\ ~g2.ok
    /\ rows # {}

\* The two pending puts t1 and t2, of different urls, drew the same id, ran
\* concurrently with no other put meanwhile, and both have returned.
SameIdTwoUrls(t1, t2) ==
  /\ wave = "closed"
  /\ PutTasks = {t1, t2}
  /\ CopiesIn(t1, reqs) = 1 /\ CopiesIn(t2, reqs) = 1
  /\ t1.pc = "shortn_ret" /\ t2.pc = "shortn_ret"
  /\ t1.url # t2.url
  /\ t1.id = t2.id

====
